---- MODULE Spec2Model ----
(***************************************************************************)
(* delete-react-zombies, src/index.ts: discovery of React components in a  *)
(* source tree, the pairwise usage scan that classifies them, and the      *)
(* forced / interactive deletion of the unused ones.                       *)
(*                                                                         *)
(* Strings that the program takes apart (file names, paths, file texts)    *)
(* are sequences of chunks, so that `${a}/${b}`, String.includes and the   *)
(* extension test are computed and not looked up:                          *)
(*   a file name  <<"old_", "node_modules">>      "old_node_modules"       *)
(*   a path       <<"/work", "/", "A", ".tsx">>   "/work/A.tsx"            *)
(*   a file text  <<<<"displayName", "Foo">>, <<"import", "Foo">>>>        *)
(* console output (and so args.verbose, which only adds output) is not     *)
(* part of the state.                                                      *)
(***************************************************************************)
EXTENDS Naturals, Sequences, FiniteSets

VARIABLES
    args,              \* yargs' argv: path, absoluteImports, ignoreNodeModules, force
    disk,              \* the file system: path -> node
    pc,                \* where the main function is: start, prompt, done, crashed
    components,        \* main's `components`
    zombieComponents,  \* main's `zombieComponents`, confirmDelete's `components`
    idx,               \* confirmDelete's position in its for-of loop
    calls,             \* the fs calls made so far, with what they returned
    prompts,           \* the paths named by the prompts issued so far
    answers,           \* the answers received so far
    deleted            \* the paths handed to deleteComponent so far

vars == <<args, disk, pc, components, zombieComponents, idx, calls, prompts,
          answers, deleted>>

----------------------------------------------------------------------------
(* Bounds of the model *)

\* the most usage references (import / JSX tag) one file text holds
MaxRefs == 1
\* the most file-system entries that fail
MaxFaults == 1

----------------------------------------------------------------------------
(* Strings *)

Join(path, fileName) == path \o <<"/">> \o fileName

\* String.prototype.includes
Includes(s, needle) ==
    \E i \in 1..(Len(s) + 1) :
        /\ i + Len(needle) - 1 <= Len(s)
        /\ SubSeq(s, i, i + Len(needle) - 1) = needle

Range(s) == {s[i] : i \in 1..Len(s)}

RECURSIVE SeqsUpTo(_, _)
SeqsUpTo(S, n) ==
    IF n = 0 THEN {<<>>}
    ELSE LET shorter == SeqsUpTo(S, n - 1)
         IN shorter \cup {Append(s, x) : s \in shorter, x \in S}

----------------------------------------------------------------------------
(* The environment: process.cwd(), utils' baseUrl, the file system *)

process_cwd == <<"/work">>

baseUrl == <<"src">>

ExplicitPath == Join(process_cwd, <<"node_modules">>)

Names == {"Foo", "Bar"}

Headers ==
    {<<>>, <<<<"syntaxError", "">>>>} \cup {<<<<"displayName", n>>>> : n \in Names}

RefTokens == {<<"import", "Foo">>, <<"jsx", "Bar">>}

Texts == {h \o r : h \in Headers, r \in SeqsUpTo(RefTokens, MaxRefs)}

Dir(entries, fails) ==
    [type |-> "dir", entries |-> entries, text |-> <<>>, fails |-> fails]

File(text, fails) ==
    [type |-> "file", entries |-> <<>>, text |-> text, fails |-> fails]

Dangling == [type |-> "dangling", entries |-> <<>>, text |-> <<>>, fails |-> TRUE]

FaultPoints == {"readdir", "stat", "read"}

FaultSets == {F \in SUBSET FaultPoints : Cardinality(F) <= MaxFaults}

\*  /work/A.tsx                            textA
\*  /work/notes.md                         not an eligible extension
\*  /work/node_modules/pkg/V.jsx           a vendored component using Foo
\*  /work/link.tsx                         a dangling link, when "stat" fails
\*  /work/src/B.tsx                        textB (unreadable when "read" fails)
\*  /work/src/old_node_modules/W.js        a vendored component
\*  /work/src  is not listable when "readdir" fails
Tree(textA, textB, faults) ==
    LET root == process_cwd
        nm   == Join(root, <<"node_modules">>)
        pkg  == Join(nm, <<"pkg">>)
        src  == Join(root, <<"src">>)
        onm  == Join(src, <<"old_", "node_modules">>)
        link == IF "stat" \in faults THEN <<<<"link", ".tsx">>>> ELSE <<>>
        top  == <<<<"A", ".tsx">>, <<"notes", ".md">>, <<"node_modules">>>>
                    \o link \o <<<<"src">>>>
        nodes ==
            {<<root, Dir(top, FALSE)>>,
             <<Join(root, <<"A", ".tsx">>), File(textA, FALSE)>>,
             <<Join(root, <<"notes", ".md">>),
                 File(<<<<"displayName", "Bar">>, <<"import", "Foo">>,
                        <<"jsx", "Bar">>>>, FALSE)>>,
             <<nm, Dir(<<<<"pkg">>>>, FALSE)>>,
             <<pkg, Dir(<<<<"V", ".jsx">>>>, FALSE)>>,
             <<Join(pkg, <<"V", ".jsx">>),
                 File(<<<<"displayName", "Bar">>, <<"import", "Foo">>>>, FALSE)>>,
             <<src, Dir(<<<<"B", ".tsx">>, <<"old_", "node_modules">>>>,
                        "readdir" \in faults)>>,
             <<Join(src, <<"B", ".tsx">>), File(textB, "read" \in faults)>>,
             <<onm, Dir(<<<<"W", ".js">>>>, FALSE)>>,
             <<Join(onm, <<"W", ".js">>),
                 File(<<<<"displayName", "Foo">>>>, FALSE)>>}
            \cup (IF "stat" \in faults
                  THEN {<<Join(root, <<"link", ".tsx">>), Dangling>>}
                  ELSE {})
    IN [p \in {n[1] : n \in nodes} |-> (CHOOSE n \in nodes : n[1] = p)[2]]

----------------------------------------------------------------------------
(* fs *)

Call(op, path, threw, names, isDirectory, text) ==
    [op |-> op, path |-> path, threw |-> threw, names |-> names,
     isDirectory |-> isDirectory, text |-> text]

readdirSync(d, path) ==
    IF path \in DOMAIN d /\ d[path].type = "dir" /\ ~d[path].fails
    THEN Call("readdirSync", path, FALSE, d[path].entries, FALSE, <<>>)
    ELSE Call("readdirSync", path, TRUE, <<>>, FALSE, <<>>)

statSync(d, path) ==
    IF path \in DOMAIN d /\ d[path].type # "dangling"
    THEN Call("statSync", path, FALSE, <<>>, d[path].type = "dir", <<>>)
    ELSE Call("statSync", path, TRUE, <<>>, FALSE, <<>>)

readFileSync(d, path) ==
    IF path \in DOMAIN d /\ d[path].type = "file" /\ ~d[path].fails
    THEN Call("readFileSync", path, FALSE, <<>>, FALSE, d[path].text)
    ELSE Call("readFileSync", path, TRUE, <<>>, FALSE, <<>>)

unlinkSync(d, path) ==
    [q \in DOMAIN d \ {path} |->
        IF d[q].type = "dir"
        THEN [d[q] EXCEPT !.entries = SelectSeq(@, LAMBDA n : Join(q, n) # path)]
        ELSE d[q]]

----------------------------------------------------------------------------
(* utils *)

isAvailableFile(fileName) ==
    /\ Len(fileName) >= 2
    /\ fileName[Len(fileName)] \in {".js", ".jsx", ".tsx"}

isImported(componentName, fileContent) ==
    \E i \in 1..Len(fileContent) :
        /\ fileContent[i][1] \in {"import", "jsx"}
        /\ fileContent[i][2] = componentName

deleteComponent(d, component) == unlinkSync(d, component.path)

RECURSIVE deleteComponents(_, _)
deleteComponents(d, cs) ==
    IF cs = <<>> THEN d
    ELSE deleteComponents(deleteComponent(d, Head(cs)), Tail(cs))

----------------------------------------------------------------------------
(* react-docgen *)

\* parse throws on source it cannot parse; the displayName is that of the
\* first component definition, and is missing when there is none
reactDocs_parse(fileContent) ==
    LET decl == {i \in 1..Len(fileContent) : fileContent[i][1] = "displayName"}
    IN IF \E i \in 1..Len(fileContent) : fileContent[i][1] = "syntaxError"
       THEN [threw |-> TRUE, displayName |-> ""]
       ELSE IF decl = {} THEN [threw |-> FALSE, displayName |-> ""]
       ELSE [threw |-> FALSE,
             displayName |->
                 fileContent[CHOOSE i \in decl : \A j \in decl : i <= j][2]]

----------------------------------------------------------------------------
(* index.ts *)

getComponentName(fileContent) ==
    LET parsed == reactDocs_parse(fileContent)
    IN IF parsed.threw THEN "" ELSE parsed.displayName

UseFullPathNested(a, path, isSubfolder) ==
    IF a.path = <<>> /\ a.absoluteImports
    THEN Join(path, baseUrl)
    ELSE path

UseFullPath(a, path, isSubfolder) ==
    IF a.path = <<>> /\ a.absoluteImports /\ ~isSubfolder
    THEN Join(path, baseUrl)
    ELSE path

SkipDirectoryExact(a, fileName) ==
    a.ignoreNodeModules /\ fileName = <<"node_modules">>

SkipDirectory(a, fileName) ==
    a.ignoreNodeModules /\ Includes(fileName, <<"node_modules">>)

Component(name, path, content) ==
    [name |-> name, path |-> path, content |-> content]

\* the walk so far: the accumulator, whether an exception is propagating,
\* and the fs calls made
Walk(threw, value, cs) == [threw |-> threw, value |-> value, calls |-> cs]

fileEntryKeepsUnnamed(d, acc, filePath, fileName) ==
    IF isAvailableFile(fileName)
    THEN LET rd == readFileSync(d, filePath)
             componentName == getComponentName(rd.text)
         IN IF rd.threw
            THEN Walk(TRUE, <<>>, Append(acc.calls, rd))
            ELSE Walk(FALSE,
                      Append(acc.value, Component(componentName, filePath, rd.text)),
                      Append(acc.calls, rd))
    ELSE acc

fileEntrySkipsUnreadable(d, acc, filePath, fileName) ==
    IF isAvailableFile(fileName)
    THEN LET rd == readFileSync(d, filePath)
             componentName == getComponentName(rd.text)
         IN IF rd.threw \/ componentName = ""
            THEN Walk(FALSE, acc.value, Append(acc.calls, rd))
            ELSE Walk(FALSE,
                      Append(acc.value, Component(componentName, filePath, rd.text)),
                      Append(acc.calls, rd))
    ELSE acc

fileEntry(d, acc, filePath, fileName) ==
    IF isAvailableFile(fileName)
    THEN LET rd == readFileSync(d, filePath)
             componentName == getComponentName(rd.text)
         IN IF rd.threw
            THEN Walk(TRUE, <<>>, Append(acc.calls, rd))
            ELSE IF componentName = ""
            THEN Walk(FALSE, acc.value, Append(acc.calls, rd))
            ELSE Walk(FALSE,
                      Append(acc.value, Component(componentName, filePath, rd.text)),
                      Append(acc.calls, rd))
    ELSE acc

RECURSIVE getComponentsFromDir(_, _, _, _)
RECURSIVE reduceFiles(_, _, _, _, _, _)

reduceCallback(d, a, useFullPath, acc, fileName) ==
    LET filePath == Join(useFullPath, fileName)
        st == statSync(d, filePath)
        afterStat == Walk(FALSE, acc.value, Append(acc.calls, st))
    IN IF st.threw
       THEN Walk(TRUE, <<>>, afterStat.calls)
       ELSE IF st.isDirectory
       THEN IF SkipDirectory(a, fileName)
            THEN afterStat
            ELSE LET sub == getComponentsFromDir(d, a, filePath, TRUE)
                 IN IF sub.threw
                    THEN Walk(TRUE, <<>>, afterStat.calls \o sub.calls)
                    ELSE Walk(FALSE, acc.value \o sub.value,
                              afterStat.calls \o sub.calls)
       ELSE fileEntry(d, afterStat, filePath, fileName)

reduceFiles(d, a, useFullPath, files, i, acc) ==
    IF acc.threw \/ i > Len(files)
    THEN acc
    ELSE reduceFiles(d, a, useFullPath, files, i + 1,
                     reduceCallback(d, a, useFullPath, acc, files[i]))

getComponentsFromDir(d, a, path, isSubfolder) ==
    LET useFullPath == UseFullPath(a, path, isSubfolder)
        ls == readdirSync(d, useFullPath)
    IN IF ls.threw
       THEN Walk(TRUE, <<>>, <<ls>>)
       ELSE reduceFiles(d, a, useFullPath, ls.names, 1, Walk(FALSE, <<>>, <<ls>>))

verifyImportFirstOnly(component, listOfComponents) ==
    \/ listOfComponents = <<>>
    \/ ~isImported(component.name, listOfComponents[1].content)

verifyImportSkipSelf(component, listOfComponents) ==
    ~\E i \in 1..Len(listOfComponents) :
        /\ listOfComponents[i] # component
        /\ isImported(component.name, listOfComponents[i].content)

\* TRUE when the component is returned (no file imports it), FALSE when the
\* function returns undefined
verifyImport(component, listOfComponents) ==
    ~\E i \in 1..Len(listOfComponents) :
        isImported(component.name, listOfComponents[i].content)

getUnusedComponentsInverted(cs) ==
    LET drop(curr) == ~verifyImport(curr, cs)
    IN SelectSeq(cs, drop)

getUnusedComponents(cs) ==
    LET keep(curr) == verifyImport(curr, cs)
    IN SelectSeq(cs, keep)

ForceBranchNever(a) == FALSE

ForceBranch(a) == a.force

ShouldDeleteAlways(confirm) == TRUE

ShouldDelete(confirm) == confirm

NextIndexSkips(i) == i + 2

NextIndex(i) == i + 1

----------------------------------------------------------------------------
(* The run *)

Init ==
    /\ args \in [path : {<<>>, ExplicitPath}, absoluteImports : BOOLEAN,
                 ignoreNodeModules : BOOLEAN, force : BOOLEAN]
    /\ \E textA \in Texts, textB \in Texts, faults \in FaultSets :
           disk = Tree(textA, textB, faults)
    /\ pc = "start"
    /\ components = <<>>
    /\ zombieComponents = <<>>
    /\ idx = 0
    /\ calls = <<>>
    /\ prompts = <<>>
    /\ answers = <<>>
    /\ deleted = <<>>

Paths(cs) == [i \in 1..Len(cs) |-> cs[i].path]

\* the main function up to its first await, or to its end
Main ==
    /\ pc = "start"
    /\ LET path == IF args.path # <<>> THEN args.path ELSE process_cwd
           walk == getComponentsFromDir(disk, args, path, FALSE)
           zs   == getUnusedComponents(walk.value)
       IN /\ calls' = walk.calls
          /\ IF walk.threw
             THEN /\ pc' = "crashed"
                  /\ UNCHANGED <<components, zombieComponents, idx, disk,
                                 deleted, prompts>>
             ELSE /\ components' = walk.value
                  /\ zombieComponents' = zs
                  /\ IF ForceBranch(args)
                     THEN /\ disk' = deleteComponents(disk, zs)
                          /\ deleted' = Paths(zs)
                          /\ pc' = "done"
                          /\ UNCHANGED <<idx, prompts>>
                     ELSE /\ idx' = 1
                          /\ UNCHANGED <<disk, deleted>>
                          /\ IF zs = <<>>
                             THEN pc' = "done" /\ UNCHANGED prompts
                             ELSE pc' = "prompt" /\ prompts' = <<zs[1].path>>
    /\ UNCHANGED <<args, answers>>

\* confirmDelete resumes with the answer to its prompt, and runs to its next
\* prompt or to the end of main
Answer(confirm) ==
    /\ pc = "prompt"
    /\ answers' = Append(answers, confirm)
    /\ IF ShouldDelete(confirm)
       THEN /\ disk' = deleteComponent(disk, zombieComponents[idx])
            /\ deleted' = Append(deleted, zombieComponents[idx].path)
       ELSE UNCHANGED <<disk, deleted>>
    /\ idx' = NextIndex(idx)
    /\ IF idx' <= Len(zombieComponents)
       THEN pc' = "prompt" /\ prompts' = Append(prompts, zombieComponents[idx'].path)
       ELSE pc' = "done" /\ UNCHANGED prompts
    /\ UNCHANGED <<args, components, zombieComponents, calls>>

Next ==
    \/ Main
    \/ \E confirm \in BOOLEAN : Answer(confirm)

Spec == Init /\ [][Next]_vars

----------------------------------------------------------------------------
(* Properties *)

\* the walk returned and main went on to classify
Ran == pc \in {"prompt", "done"}

IsZombie(c) == \E j \in 1..Len(zombieComponents) : zombieComponents[j] = c

\* the scan root of section 4.1
ScanRoot(a) ==
    IF a.path # <<>> THEN a.path
    ELSE IF a.absoluteImports THEN process_cwd \o <<"/">> \o baseUrl
    ELSE process_cwd

\* path lies in (asDir: or is) a directory below the root whose name
\* contains node_modules
InVendorDir(root, path, asDir) ==
    \E i \in (Len(root) + 1)..Len(path) :
        /\ path[i] = "node_modules"
        /\ asDir \/ \E j \in (i + 1)..Len(path) : path[j] = "/"

\* C1 as stated: a component is in the unused list iff no OTHER component of
\* the list has content in which isImported finds its name.
C1_UnusedIffNoOtherImports ==
    Ran => \A i \in 1..Len(components) :
        IsZombie(components[i]) <=>
            ~\E k \in 1..Len(components) :
                /\ k # i
                /\ isImported(components[i].name, components[k].content)

\* C1 amended: a component is in the unused list iff no component of the
\* list, the component itself included, has content in which isImported finds
\* its name; the unused list keeps the order of the component list.
C1_UnusedIffNoImports ==
    Ran =>
        /\ \A i \in 1..Len(components) :
               IsZombie(components[i]) <=>
                   ~\E k \in 1..Len(components) :
                       isImported(components[i].name, components[k].content)
        /\ \A j \in 1..Len(zombieComponents) :
               \E i \in 1..Len(components) : components[i] = zombieComponents[j]

\* a component imported by a later file of the list only, and an unused one
C1_Witness ==
    /\ Ran
    /\ zombieComponents # <<>>
    /\ \E i \in 1..Len(components) :
           /\ ~isImported(components[i].name, components[1].content)
           /\ \E k \in 2..Len(components) :
                  k # i /\ isImported(components[i].name, components[k].content)

\* C2: a component whose own content imports its own name is absent from the
\* unused list, also when no other component imports it.
C2_SelfImportIsUsed ==
    Ran => \A i \in 1..Len(components) :
        isImported(components[i].name, components[i].content)
            => ~IsZombie(components[i])

\* a component that only its own content imports
C2_Witness ==
    /\ Ran
    /\ \E i \in 1..Len(components) :
           /\ isImported(components[i].name, components[i].content)
           /\ \A k \in 1..Len(components) :
                  k # i => ~isImported(components[i].name, components[k].content)

\* C3: with --force no prompt is ever issued, confirmDelete is never entered,
\* and when main has returned every unused component's file is deleted.
C3_ForceDeletesAllWithoutPrompt ==
    args.force =>
        /\ prompts = <<>> /\ answers = <<>> /\ idx = 0 /\ pc # "prompt"
        /\ pc = "done" =>
               \A j \in 1..Len(zombieComponents) :
                   /\ zombieComponents[j].path \notin DOMAIN disk
                   /\ zombieComponents[j].path \in Range(deleted)

\* a forced run that deleted two unused components
C3_Witness ==
    /\ args.force
    /\ pc = "done"
    /\ Len(zombieComponents) >= 2
    /\ \A j \in 1..Len(zombieComponents) :
           zombieComponents[j].path \notin DOMAIN disk

\* C4: without --force a file is deleted only if the prompt naming it was
\* answered yes, and a file whose prompt was answered no stays on disk.
C4_DeleteOnlyOnConfirm ==
    ~args.force =>
        /\ \A i \in 1..Len(deleted) :
               \E j \in 1..Len(answers) : prompts[j] = deleted[i] /\ answers[j]
        /\ \A i \in 1..Len(components) :
               components[i].path \notin DOMAIN disk =>
                   \E j \in 1..Len(answers) :
                       prompts[j] = components[i].path /\ answers[j]
        /\ \A j \in 1..Len(answers) :
               ~answers[j] =>
                   /\ prompts[j] \in DOMAIN disk
                   /\ disk[prompts[j]].type = "file"

\* one prompt declined, then one accepted
C4_Witness ==
    /\ ~args.force
    /\ Len(answers) >= 2
    /\ ~answers[1]
    /\ answers[2]
    /\ prompts[1] \in DOMAIN disk
    /\ prompts[2] \notin DOMAIN disk

\* C5: with --ignoreNodeModules no directory below the scan root whose name
\* contains node_modules is listed, no file under one is read, and no
\* component has its path under one.
C5_VendorDirsNeverEntered ==
    args.ignoreNodeModules =>
        /\ \A i \in 1..Len(calls) :
               /\ calls[i].op = "readdirSync" =>
                      ~InVendorDir(ScanRoot(args), calls[i].path, TRUE)
               /\ calls[i].op = "readFileSync" =>
                      ~InVendorDir(ScanRoot(args), calls[i].path, FALSE)
        /\ \A i \in 1..Len(components) :
               ~InVendorDir(ScanRoot(args), components[i].path, FALSE)

\* a walk from the working directory that met node_modules at depth one and
\* old_node_modules at depth two
C5_Witness ==
    /\ args.ignoreNodeModules
    /\ Ran
    /\ \E i, j \in 1..Len(calls) :
           /\ calls[i].op = "statSync" /\ calls[i].isDirectory
           /\ calls[i].path = Join(process_cwd, <<"node_modules">>)
           /\ calls[j].op = "statSync" /\ calls[j].isDirectory
           /\ calls[j].path =
                  Join(Join(process_cwd, <<"src">>), <<"old_", "node_modules">>)

\* C6: the first directory listed is the explicit path when one is given,
\* else <cwd>/<baseUrl> with --absoluteImports, else the working directory;
\* every other directory listed is an entry of a directory listed before,
\* under exactly that directory's path.
C6_ScanRoot ==
    pc # "start" =>
        /\ calls[1].op = "readdirSync"
        /\ calls[1].path = ScanRoot(args)
        /\ \A i \in 2..Len(calls) :
               calls[i].op = "readdirSync" =>
                   \E j \in 1..(i - 1) :
                       /\ calls[j].op = "readdirSync"
                       /\ \E n \in Range(calls[j].names) :
                              calls[i].path = calls[j].path \o <<"/">> \o n

\* --absoluteImports without --path, and a recursive call was made
C6_Witness ==
    /\ Ran
    /\ args.absoluteImports
    /\ args.path = <<>>
    /\ \E i \in 2..Len(calls) : calls[i].op = "readdirSync"

\* C7: in a walk that returned, every entry of every listed directory was
\* visited, and the regular files read are those with an eligible extension;
\* every file read for which the parser gives a non-empty
\* displayName is one component, with that name, the file's path and the
\* text read; every other file read is no component; and every component
\* comes from a file read.
C7_OneComponentPerNamedFile ==
    Ran =>
        /\ \A i \in 1..Len(calls) :
               calls[i].op = "readdirSync" =>
                   \A n \in Range(calls[i].names) :
                       \E j \in 1..Len(calls) :
                           /\ calls[j].op = "statSync"
                           /\ calls[j].path = calls[i].path \o <<"/">> \o n
                           /\ (~calls[j].isDirectory /\ isAvailableFile(n)) <=>
                                  \E k \in 1..Len(calls) :
                                      /\ calls[k].op = "readFileSync"
                                      /\ calls[k].path = calls[j].path
        /\ \A i \in 1..Len(calls) :
               calls[i].op = "readFileSync" =>
                   LET parsed == reactDocs_parse(calls[i].text)
                       made == {k \in 1..Len(components) :
                                    components[k].path = calls[i].path}
                   IN IF ~parsed.threw /\ parsed.displayName # ""
                      THEN /\ Cardinality(made) = 1
                           /\ \A k \in made :
                                  /\ components[k].name = parsed.displayName
                                  /\ components[k].content = calls[i].text
                      ELSE made = {}
        /\ \A k \in 1..Len(components) :
               \E i \in 1..Len(calls) :
                   /\ calls[i].op = "readFileSync"
                   /\ calls[i].path = components[k].path

\* a file the parser rejects and a file with no displayName were read, and a
\* file read after them became a component
C7_Witness ==
    /\ Ran
    /\ \E i, j, k \in 1..Len(calls) :
           /\ i < k /\ j < k
           /\ calls[i].op = "readFileSync" /\ reactDocs_parse(calls[i].text).threw
           /\ calls[j].op = "readFileSync"
           /\ ~reactDocs_parse(calls[j].text).threw
           /\ reactDocs_parse(calls[j].text).displayName = ""
           /\ calls[k].op = "readFileSync"
           /\ \E c \in 1..Len(components) : components[c].path = calls[k].path

\* C8: after a failed readdirSync, statSync or readFileSync the run has
\* ended: there is no component list, no unused list, no prompt, no
\* deletion, and every path the walk saw is still on disk.
C8_FsFailureAborts ==
    (\E i \in 1..Len(calls) : calls[i].threw) =>
        /\ pc = "crashed"
        /\ components = <<>> /\ zombieComponents = <<>>
        /\ prompts = <<>> /\ answers = <<>> /\ idx = 0
        /\ deleted = <<>>
        /\ \A i \in 1..Len(calls) : ~calls[i].threw => calls[i].path \in DOMAIN disk
        /\ ~ENABLED Next

\* a read failed after a component had been found
C8_Witness ==
    /\ pc = "crashed"
    /\ \E i, j \in 1..Len(calls) :
           /\ i < j
           /\ calls[i].op = "readFileSync" /\ ~calls[i].threw
           /\ getComponentName(calls[i].text) # ""
           /\ calls[j].op = "readFileSync" /\ calls[j].threw

\* Pending, Prompted, Deleted or Skipped
ItemState(i) ==
    IF i > Len(prompts) THEN "Pending"
    ELSE IF i > Len(answers) THEN "Prompted"
    ELSE IF answers[i] THEN "Deleted"
    ELSE "Skipped"

C9_InOrder ==
    ~args.force /\ Ran =>
        /\ Len(prompts) <= Len(zombieComponents)
        /\ \A i \in 1..Len(prompts) : prompts[i] = zombieComponents[i].path
        /\ Len(answers) <= Len(prompts)
        /\ Len(prompts) <= Len(answers) + 1
        /\ pc = "prompt" <=> Len(prompts) = Len(answers) + 1
        /\ pc = "done" => Len(answers) = Len(zombieComponents)
        /\ \A i \in 1..Len(zombieComponents) :
               /\ ItemState(i) = "Deleted" =>
                      zombieComponents[i].path \notin DOMAIN disk
               /\ ItemState(i) \in {"Skipped", "Prompted", "Pending"} =>
                      zombieComponents[i].path \in DOMAIN disk

C9_TerminalStays ==
    \A i \in 1..Len(answers) :
        /\ Len(answers') >= i /\ answers'[i] = answers[i]
        /\ Len(prompts') >= i /\ prompts'[i] = prompts[i]
        /\ (prompts[i] \in DOMAIN disk') <=> (prompts[i] \in DOMAIN disk)

\* an answer moves confirmDelete on by exactly one item
C9_Advances ==
    /\ Len(answers') = Len(answers) + 1
    /\ Len(prompts') \in {Len(prompts), Len(prompts) + 1}

C9_AwaitsOnlyTheAnswer ==
    pc = "prompt" => \A confirm \in BOOLEAN : ENABLED Answer(confirm)

\* C9: in interactive mode the prompts name the unused components in list
\* order, one each; a prompt is issued only when every earlier one has been
\* answered; an answered item is Deleted (file gone) after yes and Skipped
\* (file there) after no, and stays so; an open prompt waits for nothing but
\* its answer, and each answer settles exactly one more item, so that with
\* every prompt answered the workflow ends, every item Deleted or Skipped.
C9_InteractiveWorkflow ==
    /\ []C9_InOrder
    /\ []C9_AwaitsOnlyTheAnswer
    /\ [][C9_TerminalStays /\ (pc = "prompt" => C9_Advances)]_vars

\* the third prompt is out, after one yes and one no
C9_Witness ==
    /\ ~args.force
    /\ pc = "prompt"
    /\ Len(prompts) = 3
    /\ answers = <<TRUE, FALSE>>

C10_OnlyUnusedDeleted ==
    /\ \A i \in 1..Len(deleted) :
           \E c \in 1..Len(components) :
               /\ components[c].path = deleted[i]
               /\ ~\E k \in 1..Len(components) :
                      isImported(components[c].name, components[k].content)
    /\ \A i \in 1..Len(calls) :
           (~calls[i].threw /\ calls[i].path \notin Range(deleted)) =>
               calls[i].path \in DOMAIN disk

\* C10: every file deleted is the file of a component that no component's
\* content imports, every other path the walk saw stays on disk, and once
\* main has its component list the list never changes.
C10_DeletionWithinUnused ==
    /\ []C10_OnlyUnusedDeleted
    /\ [][pc # "start" => components' = components]_vars

\* a file was deleted while a used component and a file that is no component
\* were left alone
C10_Witness ==
    /\ deleted # <<>>
    /\ \E c \in 1..Len(components) : ~IsZombie(components[c])
    /\ Len(components) > Len(zombieComponents) + 1
    /\ \A c \in 1..Len(components) :
           ~IsZombie(components[c]) => components[c].path \in DOMAIN disk

====
